---- MODULE Spec2Model ----
(***************************************************************************)
(* A model of pagerduty-cli: the paginated fetch of the four PagerDuty     *)
(* resources, the join of the fetched records into escalation policies,    *)
(* the include/exclude filter, the sort, the tfstate export and the tree   *)
(* printer.                                                                *)
(*                                                                         *)
(* Strings are sequences of byte codes, so that String's ordering (used by *)
(* BTreeMap iteration and by Ord for EscalationPolicy) is computed and not *)
(* assumed.                                                                *)
(***************************************************************************)
EXTENDS Integers, Sequences, FiniteSets, TLC

VARIABLES
    pc,               \* position of the command
    args,             \* the parsed command line (clap's ArgMatches)
    remote,           \* the records the remote serves, per resource and page
    state,            \* PagerDutyState: users, services, escalation_policies, oncalls
    return_policies,  \* result of make_escalation_policies
    res,              \* the resource whose fetch is running (1..4), 0 before
    poll_queue,       \* make_api_call: pending offsets
    offset,           \* make_api_call: the offset of the request in flight
    response_array,   \* make_api_call: decoded pages, in request order
    requests,         \* GET requests sent so far, with what came back
    failed,           \* resources whose make_api_call returned None
    who_cfg,          \* who_is_oncall: include_vec, exclude_vec, max_depth
    policies,         \* who_is_oncall: the filtered and sorted list
    output,           \* what the command printed or wrote
    exit_code,        \* the exit status of the process, NoExit while it runs
    tf_state,         \* TfStateExportData
    added,            \* policies passed to add_escalation_policy so far
    tree,             \* TreePrinter: nodes, edges, index_counter, roots
    rendered,         \* result of TreePrinter::render
    cmp_in,           \* inputs of ==, cmp, sort and policy_should_be_included
    cmp_out           \* their results

vars == <<pc, args, remote, state, return_policies, res, poll_queue, offset,
          response_array, requests, failed, who_cfg, policies, output, exit_code,
          tf_state, added, tree, rendered, cmp_in, cmp_out>>

fetch_vars == <<res, poll_queue, offset, response_array, requests, failed>>
who_vars == <<who_cfg, policies, output>>
export_vars == <<tf_state, added>>
tree_vars == <<tree, rendered>>
cmp_vars == <<cmp_in, cmp_out>>

----------------------------------------------------------------------------
(* Bounds *)

MaxOncalls == 2    \* on-call rows drawn for the aggregation
MaxLevel == 3      \* largest escalation_level drawn
MaxAdds == 3       \* calls of add_escalation_policy
MaxNodes == 6      \* lines added to a TreePrinter
MaxPages == 2      \* pages the remote serves per resource
MaxSort == 3       \* length of the list that is sorted
MaxPatterns == 2   \* include / exclude patterns supplied

----------------------------------------------------------------------------
(* Strings *)

\* "P1", "P2": escalation policy ids
PolicyIds == {<<80, 49>>, <<80, 50>>}
\* "U1", "U2": user ids
UserIds == {<<85, 49>>, <<85, 50>>}
\* "S1", "S2": service ids
ServiceIds == {<<83, 49>>, <<83, 50>>}
\* "Connect", "Go", "go": policy names (upper case sorts before lower case)
NameConnect == <<67, 111, 110, 110, 101, 99, 116>>
NameGo == <<71, 111>>
NameLowerGo == <<103, 111>>
PolicyNames == {NameConnect, NameGo, NameLowerGo}
NoneDesc == <<"None">>
SomeDesc == <<"Some", <<100>>>>

\* Ordering::Less = -1, Equal = 0, Greater = 1; String::cmp is lexicographic
\* on bytes.
RECURSIVE StrCmp(_, _)
StrCmp(a, b) ==
    IF a = <<>> THEN (IF b = <<>> THEN 0 ELSE -1)
    ELSE IF b = <<>> THEN 1
    ELSE IF Head(a) < Head(b) THEN -1
    ELSE IF Head(a) > Head(b) THEN 1
    ELSE StrCmp(Tail(a), Tail(b))

\* The keys of a BTreeMap in iteration order.
RECURSIVE SortedKeys(_)
SortedKeys(S) ==
    IF S = {} THEN <<>>
    ELSE LET m == CHOOSE x \in S : \A y \in S : StrCmp(x, y) <= 0
         IN <<m>> \o SortedKeys(S \ {m})

ValuesReversed(m) ==
    LET ks == SortedKeys(DOMAIN m) IN [i \in DOMAIN ks |-> m[ks[Len(ks) + 1 - i]]]

\* BTreeMap::values(): the values in key order.
Values(m) == LET ks == SortedKeys(DOMAIN m) IN [i \in DOMAIN ks |-> m[ks[i]]]

InsertFirstWins(m, k, v) ==
    [x \in (DOMAIN m) \cup {k} |-> IF x \in DOMAIN m THEN m[x] ELSE v]

\* BTreeMap::insert: last write wins.
Insert(m, k, v) == [x \in (DOMAIN m) \cup {k} |-> IF x = k THEN v ELSE m[x]]

\* BTreeMap::remove
Remove(m, k) == [x \in (DOMAIN m) \ {k} |-> m[x]]

EmptyMap == [x \in {} |-> 0]

----------------------------------------------------------------------------
(* PagerDutyState and make_escalation_policies *)

DefaultState ==
    [users |-> EmptyMap, services |-> EmptyMap,
     escalation_policies |-> EmptyMap, oncalls |-> <<>>]

\* The on-call rows of one policy, in row order.
OncallForEsc(st, esc_id) ==
    SelectSeq(st.oncalls, LAMBDA o : o.escalation_policy = esc_id)

MaxOf(S) == CHOOSE x \in S : \A y \in S : y <= x

MaxDepthZero(rows) ==
    IF rows = <<>> THEN 0
    ELSE MaxOf({rows[i].escalation_level : i \in DOMAIN rows})

MaxDepthCount(rows) ==
    IF rows = <<>> THEN 1
    ELSE Cardinality({rows[i].escalation_level : i \in DOMAIN rows})

\* .iter().map(|x| x.escalation_level).max().unwrap_or(1)
MaxDepth(rows) ==
    IF rows = <<>> THEN 1
    ELSE MaxOf({rows[i].escalation_level : i \in DOMAIN rows})

ToUser(st, o) ==
    LET user == st.users[o.user]
    IN [id |-> user.id, name |-> user.name, email |-> user.email]

UsersForDepthNoLookup(st, rows, depth) ==
    LET hit == SelectSeq(rows, LAMBDA o : o.escalation_level = depth)
    IN [i \in DOMAIN hit |->
          IF hit[i].user \in DOMAIN st.users THEN ToUser(st, hit[i])
          ELSE [id |-> hit[i].user, name |-> <<>>, email |-> <<>>]]

\* The rows of this depth whose user is in the user index, in row order.
UsersForDepth(st, rows, depth) ==
    LET hit == SelectSeq(rows, LAMBDA o :
                   o.escalation_level = depth /\ o.user \in DOMAIN st.users)
    IN [i \in DOMAIN hit |-> ToUser(st, hit[i])]

OncallGroups(st, rows) ==
    [d \in 1..MaxDepth(rows) |->
        [users |-> UsersForDepth(st, rows, d), depth |-> d]]

ServicesFor(st, esc_id) ==
    LET mine == SelectSeq(Values(st.services),
                          LAMBDA s : s.escalation_policy = esc_id)
    IN [i \in DOMAIN mine |-> mine[i].name]

MakePolicy(st, esc_model) ==
    [id |-> esc_model.id,
     description |-> esc_model.description,
     policy_name |-> esc_model.name,
     oncall_groups |-> OncallGroups(st, OncallForEsc(st, esc_model.id)),
     services |-> ServicesFor(st, esc_model.id)]

MakeEscalationPolicies(st) ==
    LET models == Values(st.escalation_policies)
    IN [i \in DOMAIN models |-> MakePolicy(st, models[i])]

----------------------------------------------------------------------------
(* Inputs of the aggregation *)

RECURSIVE SeqsUpTo(_, _)
SeqsUpTo(S, n) ==
    IF n = 0 THEN {<<>>}
    ELSE LET shorter == SeqsUpTo(S, n - 1)
         IN shorter \cup {Append(s, x) : s \in {t \in shorter : Len(t) = n - 1}, x \in S}

OncallRows ==
    [escalation_policy : PolicyIds, escalation_level : 1..MaxLevel, user : UserIds]

UserRecord(id) == [id |-> id, name |-> <<110>> \o id, email |-> id \o <<64>>]

PolicyModel(id, name, desc) == [id |-> id, description |-> desc, name |-> name]

\* Maps keyed by the record's own id, as add_policy / add_user build them.
AggPolicyMaps ==
    {[k \in D |-> PolicyModel(k, NameGo, NoneDesc)] : D \in (SUBSET PolicyIds) \ {{}}}

AggUserMaps == {[k \in D |-> UserRecord(k)] : D \in SUBSET UserIds}

AggStates ==
    {[users |-> u, services |-> EmptyMap, escalation_policies |-> p, oncalls |-> o] :
        u \in AggUserMaps, p \in AggPolicyMaps, o \in SeqsUpTo(OncallRows, MaxOncalls)}

----------------------------------------------------------------------------
(* Values of the variables a specification does not use *)

NoTree == [nodes |-> EmptyMap, edges |-> EmptyMap, index_counter |-> 0, roots |-> <<>>]
DefaultTfState == [escalation_policies |-> EmptyMap, duplicates |-> <<>>]

NoArgs == [cmd |-> "none"]
NoRemote == <<>>
NoOffset == -1
NoExit == -1

IdleFetch ==
    /\ args = NoArgs /\ remote = NoRemote /\ exit_code = NoExit
    /\ res = 0 /\ poll_queue = <<>> /\ offset = NoOffset /\ response_array = <<>>
    /\ requests = <<>> /\ failed = {}
NoCfg == <<>>
IdleWho == who_cfg = NoCfg /\ policies = <<>> /\ output = <<>>
IdleExport == tf_state = DefaultTfState /\ added = <<>>
IdleTree == tree = NoTree /\ rendered = <<>>
IdleCmp == cmp_in = <<>> /\ cmp_out = <<>>

----------------------------------------------------------------------------
(* The aggregation on its own: any PagerDutyState, then make_escalation_policies *)

InitAgg ==
    /\ pc = "aggregate"
    /\ state \in AggStates
    /\ return_policies = <<>>
    /\ IdleFetch /\ IdleWho /\ IdleExport /\ IdleTree /\ IdleCmp

\* get_escalation_policies, last line: state.make_escalation_policies()
Aggregate ==
    /\ pc = "aggregate"
    /\ return_policies' = MakeEscalationPolicies(state)
    /\ pc' = "aggregated"
    /\ UNCHANGED <<args, remote, exit_code, state, fetch_vars, who_vars, export_vars,
                   tree_vars, cmp_vars>>

NextAgg == Aggregate

SpecAgg == InitAgg /\ [][NextAgg]_vars

----------------------------------------------------------------------------
(* Claims about the aggregation (SpecAgg) *)

\* The on-call rows of policy `id`, read off the state.
RowLevels(id) ==
    {state.oncalls[i].escalation_level :
        i \in {j \in DOMAIN state.oncalls : state.oncalls[j].escalation_policy = id}}

Depths(p) == [d \in DOMAIN p.oncall_groups |-> p.oncall_groups[d].depth]

\* C1: for every policy that has at least one on-call row, the produced
\* oncall_groups have depths exactly 1, 2, ..., max(escalation_level of its
\* rows), ascending, without duplicate and without gap.
C1_DepthsContiguous ==
    pc = "aggregated" =>
        \A i \in DOMAIN return_policies :
            LET p == return_policies[i]
                lv == RowLevels(p.id)
            IN lv # {} =>
                 /\ DOMAIN p.oncall_groups = 1..MaxOf(lv)
                 /\ \A d \in 1..MaxOf(lv) : p.oncall_groups[d].depth = d

\* A policy whose rows are at levels 1 and 3 only got the three levels, the
\* second one empty.
C1_Witness ==
    /\ pc = "aggregated"
    /\ \E i \in DOMAIN return_policies :
          LET p == return_policies[i]
          IN /\ RowLevels(p.id) = {1, 3}
             /\ Depths(p) = <<1, 2, 3>>
             /\ p.oncall_groups[2].users = <<>>

ResolvedIds(id, d) ==
    LET hit == SelectSeq(state.oncalls, LAMBDA o :
                   /\ o.escalation_policy = id
                   /\ o.escalation_level = d
                   /\ o.user \in DOMAIN state.users)
    IN [k \in DOMAIN hit |-> hit[k].user]

\* C7: a user id of an on-call row that matches no user record is left out of
\* the level's users; the level of every row's depth is still present, and
\* the users that resolve appear in the order of their rows.
C7_UnresolvedUsersDropped ==
    pc = "aggregated" =>
        \A i \in DOMAIN return_policies :
            LET p == return_policies[i]
            IN /\ \A d \in RowLevels(p.id) :
                      d \in DOMAIN p.oncall_groups /\ p.oncall_groups[d].depth = d
               /\ \A d \in DOMAIN p.oncall_groups :
                      LET us == p.oncall_groups[d].users
                      IN /\ [k \in DOMAIN us |-> us[k].id] = ResolvedIds(p.id, d)
                         /\ \A k \in DOMAIN us : us[k] = state.users[us[k].id]

\* The deepest level of a policy exists only through a row whose user is
\* unknown and is empty, while the level above it lists the known user of
\* another row.
C7_Witness ==
    /\ pc = "aggregated"
    /\ \E i \in DOMAIN return_policies :
          LET p == return_policies[i]
          IN /\ Len(p.oncall_groups) = 2
             /\ p.oncall_groups[2].users = <<>>
             /\ Len(p.oncall_groups[1].users) = 1
             /\ \E j, k \in DOMAIN state.oncalls :
                   /\ state.oncalls[j].escalation_policy = p.id
                   /\ state.oncalls[k].escalation_policy = p.id
                   /\ state.oncalls[j].escalation_level = 2
                   /\ state.oncalls[k].escalation_level = 1
                   /\ state.oncalls[j].user \notin DOMAIN state.users
                   /\ state.oncalls[k].user \in DOMAIN state.users

----------------------------------------------------------------------------
(* TfStateExportData *)

AddEscalationPolicy(tf, policy) ==
    IF /\ policy.policy_name \in DOMAIN tf.escalation_policies
       /\ tf.escalation_policies[policy.policy_name] # policy.id
    THEN [escalation_policies |-> Remove(tf.escalation_policies, policy.policy_name),
          duplicates |-> Append(tf.duplicates, policy.policy_name)]
    ELSE [escalation_policies |->
              Insert(tf.escalation_policies, policy.policy_name, policy.id),
          duplicates |-> tf.duplicates]

\* "P3": a third policy id, so that one name can come with three ids
ExportIds == PolicyIds \cup {<<80, 51>>}

\* A policy as the export reads it: only id and policy_name are used.
BarePolicy(id, name) ==
    [id |-> id, description |-> NoneDesc, policy_name |-> name,
     oncall_groups |-> <<>>, services |-> <<>>]

ExportPolicies == {BarePolicy(id, name) : id \in ExportIds, name \in {NameConnect, NameGo}}

InitExport ==
    /\ pc = "export"
    /\ tf_state = DefaultTfState
    /\ added = <<>>
    /\ state = DefaultState /\ return_policies = <<>>
    /\ IdleFetch /\ IdleWho /\ IdleTree /\ IdleCmp

\* One call of tf_state.add_escalation_policy(policy)
AddPolicy ==
    /\ pc = "export"
    /\ Len(added) < MaxAdds
    /\ \E policy \in ExportPolicies :
          /\ tf_state' = AddEscalationPolicy(tf_state, policy)
          /\ added' = Append(added, policy)
    /\ UNCHANGED <<pc, args, remote, exit_code, state, return_policies, fetch_vars, who_vars,
                   tree_vars, cmp_vars>>

NextExport == AddPolicy

SpecExport == InitExport /\ [][NextExport]_vars

(* Claims about the export (SpecExport) *)

IdsAddedAs(name) == {added[i].id : i \in {j \in DOMAIN added : added[j].policy_name = name}}

InDuplicates(name) == \E i \in DOMAIN tf_state.duplicates : tf_state.duplicates[i] = name

\* C3: after any sequence of add_escalation_policy calls on a fresh
\* TfStateExportData, a name is a key of escalation_policies, mapped to id A,
\* only if every policy added under that name had id A; a name that was added
\* with two or more distinct ids is absent from escalation_policies and
\* present in duplicates.
C3_NoCollidingIdKept ==
    \A i \in DOMAIN added :
        LET name == added[i].policy_name
            ids == IdsAddedAs(name)
        IN /\ name \in DOMAIN tf_state.escalation_policies =>
                  ids = {tf_state.escalation_policies[name]}
           /\ Cardinality(ids) >= 2 =>
                  /\ name \notin DOMAIN tf_state.escalation_policies
                  /\ InDuplicates(name)

----------------------------------------------------------------------------
(* EscalationPolicy: ==, cmp and sort *)

\* #[derive(PartialEq, Eq)]: field by field
PolicyEq(a, b) ==
    /\ a.id = b.id
    /\ a.description = b.description
    /\ a.policy_name = b.policy_name
    /\ a.oncall_groups = b.oncall_groups
    /\ a.services = b.services

PolicyCmpById(a, b) == StrCmp(a.id, b.id)

\* impl Ord: self.policy_name.cmp(&other.policy_name)
PolicyCmp(a, b) == StrCmp(a.policy_name, b.policy_name)

\* Vec::sort is stable: p goes behind every element that is not greater.
RECURSIVE InsertSorted(_, _)
InsertSorted(s, p) ==
    IF s = <<>> THEN <<p>>
    ELSE IF PolicyCmp(p, Head(s)) < 0 THEN <<p>> \o s
    ELSE <<Head(s)>> \o InsertSorted(Tail(s), p)

RECURSIVE SortPolicies(_)
SortPolicies(s) ==
    IF s = <<>> THEN <<>>
    ELSE InsertSorted(SortPolicies(SubSeq(s, 1, Len(s) - 1)), s[Len(s)])

----------------------------------------------------------------------------
(* The include / exclude filter *)

\* "foo", "bar", ".*": the patterns; "foobar", "bar": two more policy names
PatFoo == <<102, 111, 111>>
PatBar == <<98, 97, 114>>
PatDotStar == <<46, 42>>
NameFoobar == <<102, 111, 111, 98, 97, 114>>
Patterns == {PatFoo, PatBar, PatDotStar}
FilterNames == {NameFoobar, PatBar, NameGo}

\* Regex::is_match for these patterns: a literal matches where it occurs as a
\* substring, ".*" matches every name.
IsMatch(exp, name) ==
    \/ exp = PatDotStar
    \/ \E i \in 1..(Len(name) - Len(exp) + 1) : SubSeq(name, i, i + Len(exp) - 1) = exp

\* does_policy_match
DoesPolicyMatch(inputs, policy) ==
    IF inputs # <<>>
    THEN IF \E i \in DOMAIN inputs : IsMatch(inputs[i], policy.policy_name)
         THEN "Yes" ELSE "No"
    ELSE "NotProvided"

PolicyShouldBeIncludedExcludeFirst(includes_vec, excludes_vec, policy) ==
    CASE DoesPolicyMatch(excludes_vec, policy) = "Yes" -> FALSE
      [] DoesPolicyMatch(excludes_vec, policy) = "No" ->
            DoesPolicyMatch(includes_vec, policy) # "No"
      [] OTHER -> DoesPolicyMatch(includes_vec, policy) # "No"

PolicyShouldBeIncluded(includes_vec, excludes_vec, policy) ==
    CASE DoesPolicyMatch(includes_vec, policy) = "Yes" -> TRUE
      [] DoesPolicyMatch(includes_vec, policy) = "No" -> FALSE
      [] OTHER -> DoesPolicyMatch(excludes_vec, policy) # "Yes"

----------------------------------------------------------------------------
(* The pure functions on their own: inputs are drawn, then applied *)

OneGroup(id) ==
    <<[users |-> <<[id |-> id, name |-> id, email |-> id]>>, depth |-> 1]>>

\* Policies that differ in any one field.
CmpPolicies ==
    [id : PolicyIds, description : {NoneDesc, SomeDesc}, policy_name : PolicyNames,
     oncall_groups : {<<>>, OneGroup(<<85, 49>>)}, services : {<<>>, <<NameGo>>}]

\* EscalationPolicy::new(id, policy_name) of the tests
SortPolicySet == {BarePolicy(id, name) : id \in PolicyIds, name \in PolicyNames}

PureInputs ==
    [kind : {"pair"}, a : CmpPolicies, b : CmpPolicies]
    \cup [kind : {"list"}, list : SeqsUpTo(SortPolicySet, MaxSort)]
    \cup [kind : {"filter"}, includes : SeqsUpTo(Patterns, MaxPatterns),
          excludes : SeqsUpTo(Patterns, MaxPatterns),
          policy : {BarePolicy(<<80, 49>>, n) : n \in FilterNames}]

(* Claims about the pure functions (SpecPure) *)

\* C6: policy_should_be_included is true exactly when the name matches at
\* least one include pattern, or no include pattern was supplied and the name
\* matches no exclude pattern.
C6_IncludeWins ==
    pc = "filtered" =>
        (cmp_out <=>
            \/ \E i \in DOMAIN cmp_in.includes :
                  IsMatch(cmp_in.includes[i], cmp_in.policy.policy_name)
            \/ /\ cmp_in.includes = <<>>
               /\ \A i \in DOMAIN cmp_in.excludes :
                     ~IsMatch(cmp_in.excludes[i], cmp_in.policy.policy_name))

\* Include "foo", exclude ".*", policy "foobar": included.
C6_Witness ==
    /\ pc = "filtered"
    /\ cmp_in.includes = <<PatFoo>> /\ cmp_in.excludes = <<PatDotStar>>
    /\ cmp_in.policy.policy_name = NameFoobar
    /\ cmp_out = TRUE

\* C9: two policies compare equal if and only if their names are equal, so
\* that a == b exactly when cmp(a, b) is Equal.
C9_EqualIffSameName ==
    pc = "compared" =>
        /\ cmp_out.eq <=> (cmp_in.a.policy_name = cmp_in.b.policy_name)
        /\ cmp_out.eq <=> (cmp_out.ord = 0)

NameRank(n) ==
    CASE n = NameConnect -> 1 [] n = NameGo -> 2 [] n = NameLowerGo -> 3

Count(s, x) == Cardinality({i \in DOMAIN s : s[i] = x})

\* C10 (the sort): the sorted list holds the policies of the input, ascending
\* by name ("Connect" < "Go" < "go"), whatever the input order and the ids.
SortedByName(s) ==
    \A i, j \in DOMAIN s :
        i < j => NameRank(s[i].policy_name) <= NameRank(s[j].policy_name)

----------------------------------------------------------------------------
(* TreePrinter *)

SegBlank == "   "
SegBar == " | "
ConnLast == " +- "
ConnMid == " |- "

\* Graph::add_line: the id of the new line is the incremented counter.
GraphAddLine(t, message) ==
    LET id == t.index_counter + 1
    IN [t EXCEPT !.index_counter = id,
                 !.nodes = Insert(t.nodes, id, [id |-> id, content |-> message]),
                 !.edges = Insert(t.edges, id, <<>>)]

\* Graph::connect_edges
ConnectEdges(t, parent, child) ==
    [t EXCEPT !.edges = Insert(t.edges, parent,
        Append(IF parent \in DOMAIN t.edges THEN t.edges[parent] ELSE <<>>, child))]

\* TreePrinter::add_line: a new root
TreeAddLine(t, line) ==
    LET g == GraphAddLine(t, line)
    IN [g EXCEPT !.roots = Append(g.roots, g.index_counter)]

\* OutputLine::add_line: a new child of the line `parent`
OutputLineAddLine(t, parent, message) ==
    LET g == GraphAddLine(t, message)
    IN ConnectEdges(g, parent, g.index_counter)

ChildPrefixBar(prefix, is_last) == Append(prefix, SegBar)

\* format!("{}   ", prefix) under a last sibling, format!("{} │ ", prefix)
\* otherwise; a prefix is the sequence of its three-column segments.
ChildPrefix(prefix, is_last) ==
    IF is_last THEN Append(prefix, SegBlank) ELSE Append(prefix, SegBar)

\* idx == size - 1, with idx counted from 1 here
IsLastIdx(idx, size) == idx = size

\* Line::print: the node's own line, then its children's, each a
\* [prefix, connector, content].
RECURSIVE LinePrint(_, _, _, _)
RECURSIVE PrintAll(_, _, _, _)
LinePrint(t, id, prefix, is_last) ==
    <<[prefix |-> prefix,
       connector |-> IF is_last THEN ConnLast ELSE ConnMid,
       content |-> t.nodes[id].content]>>
    \o PrintAll(t, t.edges[id], ChildPrefix(prefix, is_last), 1)

\* for (idx, node) in edges.iter().enumerate(), from the idx-th on
PrintAll(t, ids, prefix, idx) ==
    IF idx > Len(ids) THEN <<>>
    ELSE LinePrint(t, ids[idx], prefix, IsLastIdx(idx, Len(ids)))
         \o PrintAll(t, ids, prefix, idx + 1)

\* TreePrinter::render
Render(t) == PrintAll(t, t.roots, <<>>, 1)

\* "L1", "L2", ...: the label given to the n-th line added
Label(n) == <<76, 48 + n>>

InitTree ==
    /\ pc = "tree"
    /\ tree = NoTree
    /\ rendered = <<>>
    /\ state = DefaultState /\ return_policies = <<>>
    /\ IdleFetch /\ IdleWho /\ IdleExport /\ IdleCmp

TreeFrame ==
    UNCHANGED <<args, remote, exit_code, state, return_policies, fetch_vars, who_vars,
                export_vars, cmp_vars>>

\* tree.add_line(label)
AddRoot ==
    /\ pc = "tree"
    /\ tree.index_counter < MaxNodes
    /\ tree' = TreeAddLine(tree, Label(tree.index_counter + 1))
    /\ UNCHANGED <<pc, rendered>>
    /\ TreeFrame

\* handle.add_line(label), on the handle of any line added before
AddChild ==
    /\ pc = "tree"
    /\ tree.index_counter < MaxNodes
    /\ \E parent \in DOMAIN tree.nodes :
          tree' = OutputLineAddLine(tree, parent, Label(tree.index_counter + 1))
    /\ UNCHANGED <<pc, rendered>>
    /\ TreeFrame

\* tree.render()
RenderTree ==
    /\ pc = "tree"
    /\ rendered' = Render(tree)
    /\ pc' = "rendered"
    /\ UNCHANGED tree
    /\ TreeFrame

NextTree == AddRoot \/ AddChild \/ RenderTree

SpecTree == InitTree /\ [][NextTree]_vars

(* Claims about the tree printer (SpecTree) *)

Nodes == DOMAIN tree.nodes

IsRoot(n) == \E i \in DOMAIN tree.roots : tree.roots[i] = n

\* The siblings of n, in the order they were added: the roots, or the
\* children of n's parent.
Siblings(n) ==
    IF IsRoot(n) THEN tree.roots
    ELSE LET parent == CHOOSE q \in Nodes :
                           \E i \in DOMAIN tree.edges[q] : tree.edges[q][i] = n
         IN tree.edges[parent]

ParentOf(n) == CHOOSE q \in Nodes : \E i \in DOMAIN tree.edges[q] : tree.edges[q][i] = n

IsLastSibling(n) == Siblings(n)[Len(Siblings(n))] = n

\* The ancestors of n, from its root down to its parent.
RECURSIVE AncestorsOf(_)
AncestorsOf(n) == IF IsRoot(n) THEN <<>> ELSE Append(AncestorsOf(ParentOf(n)), ParentOf(n))

RECURSIVE Subtree(_)
Subtree(n) ==
    {n} \cup UNION {Subtree(tree.edges[n][i]) : i \in DOMAIN tree.edges[n]}

\* The position of n's line in the rendering.
LineOf(n) == CHOOSE i \in DOMAIN rendered : rendered[i].content = tree.nodes[n].content

\* C8: render emits exactly one line per added node in depth-first pre-order
\* (a node's subtree fills the lines right after its own, siblings in the
\* order added); a line has the last-sibling connector iff its node is the
\* final child of its parent or the final root; and its prefix has, per
\* ancestor from the root down, a bar segment if that ancestor was not a last
\* sibling and a blank segment if it was.
C8_RenderPreOrder ==
    pc = "rendered" =>
        /\ Len(rendered) = Cardinality(Nodes)
        /\ \A n \in Nodes :
              /\ \E i \in DOMAIN rendered : rendered[i].content = tree.nodes[n].content
              /\ {LineOf(m) : m \in Subtree(n)}
                     = LineOf(n)..(LineOf(n) + Cardinality(Subtree(n)) - 1)
              /\ \A i, j \in DOMAIN Siblings(n) :
                     i < j => LineOf(Siblings(n)[i]) < LineOf(Siblings(n)[j])
              /\ rendered[LineOf(n)].connector
                     = (IF IsLastSibling(n) THEN ConnLast ELSE ConnMid)
              /\ rendered[LineOf(n)].prefix
                     = [k \in DOMAIN AncestorsOf(n) |->
                          IF IsLastSibling(AncestorsOf(n)[k]) THEN SegBlank ELSE SegBar]

\* Two roots with two children each: bars under the first root only, the
\* second child of each root with the last-sibling connector.
C8_Witness ==
    /\ pc = "rendered"
    /\ Len(tree.roots) = 2
    /\ \A i \in 1..2 : Len(tree.edges[tree.roots[i]]) = 2
    /\ Len(rendered) = 6
    /\ [i \in 1..6 |-> rendered[i].connector]
          = <<ConnMid, ConnMid, ConnLast, ConnLast, ConnMid, ConnLast>>
    /\ [i \in 1..6 |-> rendered[i].prefix]
          = <<<<>>, <<SegBar>>, <<SegBar>>, <<>>, <<SegBlank>>, <<SegBlank>>>>

----------------------------------------------------------------------------
(* The remote: what the four endpoints serve *)

PAGE_SIZE == 100

\* The resources in the order get_escalation_policies fetches them.
ResPolicies == 1
ResOncalls == 2
ResUsers == 3
ResServices == 4
Resources == {ResPolicies, ResOncalls, ResUsers, ResServices}

P1 == <<80, 49>>
P2 == <<80, 50>>
U1 == <<85, 49>>
U2 == <<85, 50>>
S1 == <<83, 49>>
S2 == <<83, 50>>

OnCall(p, u, l) == [escalation_policy |-> p, escalation_level |-> l, user |-> u]
Service(id, name, p) == [name |-> name, id |-> id, escalation_policy |-> p]

\* Two accounts. In the first, the second page of policies repeats an id of
\* the first page, and neither the pages nor the names are in id order; in
\* the second, two policies share a name; in the third, the one page of
\* policies is in name order but not in id order, an on-call row is served
\* twice and the second pages of users and of services repeat the id of the
\* first with other fields.
RemoteDbs == {1, 2, 3}

RemoteData(db) ==
    IF db = 1
    THEN <<
        << <<PolicyModel(P2, NameLowerGo, NoneDesc)>>,
           <<PolicyModel(P1, NameGo, SomeDesc), PolicyModel(P2, NameConnect, NoneDesc)>> >>,
        << <<OnCall(P1, U1, 1), OnCall(P2, U2, 2)>>,
           <<OnCall(P1, U2, 1), OnCall(P1, U1, 3)>> >>,
        << <<UserRecord(U1)>>, <<UserRecord(U2)>> >>,
        << <<Service(S2, <<119>>, P1)>>, <<Service(S1, <<100>>, P1)>> >>
    >>
    ELSE IF db = 2
    THEN <<
        << <<PolicyModel(P1, NameGo, NoneDesc), PolicyModel(P2, NameGo, NoneDesc)>> >>,
        << <<OnCall(P1, U1, 2)>> >>,
        << <<UserRecord(U2)>> >>,
        << >>
    >>
    ELSE <<
        << <<PolicyModel(P2, NameConnect, NoneDesc), PolicyModel(P1, NameGo, SomeDesc)>> >>,
        << <<OnCall(P1, U1, 1), OnCall(P1, U1, 1)>> >>,
        << <<[UserRecord(U1) EXCEPT !.name = <<120>>]>>, <<UserRecord(U1)>> >>,
        << <<Service(S1, <<119>>, P1)>>, <<Service(S1, <<100>>, P2)>> >>
    >>

\* The page of resource r at the k-th offset (empty past the data).
RemotePage(db, r, k) ==
    IF k <= Len(RemoteData(db)[r]) THEN RemoteData(db)[r][k] ELSE <<>>

PageIndex(off) == (off \div PAGE_SIZE) + 1

----------------------------------------------------------------------------
(* fetch_*_for_account and make_api_call *)

AddPolicyModel(st, policy) ==
    [st EXCEPT !.escalation_policies = Insert(st.escalation_policies, policy.id, policy)]
AddOncall(st, oncall) == [st EXCEPT !.oncalls = Append(st.oncalls, oncall)]
AddUser(st, user) == [st EXCEPT !.users = Insert(st.users, user.id, user)]
AddService(st, service) == [st EXCEPT !.services = Insert(st.services, service.id, service)]

AddRecord(st, r, rec) ==
    CASE r = ResPolicies -> AddPolicyModel(st, rec)
      [] r = ResOncalls -> AddOncall(st, rec)
      [] r = ResUsers -> AddUser(st, rec)
      [] r = ResServices -> AddService(st, rec)

RECURSIVE AddPage(_, _, _)
AddPage(st, r, page) ==
    IF page = <<>> THEN st
    ELSE AddPage(AddRecord(st, r, Head(page)), r, Tail(page))

\* Some(objs): every record of every page, in order
RECURSIVE AddAll(_, _, _)
AddAll(st, r, pages) ==
    IF pages = <<>> THEN st
    ELSE AddAll(AddPage(st, r, Head(pages)), r, Tail(pages))

OnNoneKeepPartial(st, r, pages) == AddAll(st, r, pages)

\* None: warn!("Unable to get policies. Skipping."), nothing is added
OnNone(st, r, pages) == st

PushAlways(queue, off, more) == Append(queue, off + PAGE_SIZE)

\* if resp.more { poll_queue.push(offset + PAGE_SIZE) }
PushMore(queue, off, more) ==
    IF more THEN Append(queue, off + PAGE_SIZE) ELSE queue

\* The command lines drawn.
NoDepth == -1
\* The matches of a who-is-oncall, or export, command line given with a
\* token; depth is the number typed after --depth.
WhoArgs(inc, exc, depth, format) ==
    [cmd |-> "who", token |-> TRUE, include |-> inc, exclude |-> exc,
     depth |-> depth, format |-> format]
ExportArgs(dest) == [cmd |-> "export", token |-> TRUE, dest |-> dest]

\* The same command line with neither --api-token nor PAGERDUTY_TOKEN
WithoutToken(a) == [a EXCEPT !.token = FALSE]

\* "G": matches "Go" only
PatG == <<71>>

ArgSets ==
    {WhoArgs(<<>>, <<>>, NoDepth, "tree"),
     WhoArgs(<<PatG>>, <<PatDotStar>>, NoDepth, "tree"),
     WhoArgs(<<>>, <<PatG>>, NoDepth, "json"),
     WhoArgs(<<>>, <<>>, 1, "json"),
     WhoArgs(<<>>, <<>>, 1, "csv"),
     WhoArgs(<<>>, <<>>, 1, "tree"),
     WhoArgs(<<>>, <<>>, 0, "tree"),
     WhoArgs(<<>>, <<>>, 2, "csv"),
     ExportArgs("-"),
     ExportArgs("file")}

\* "(": an unclosed group
PatOpen == <<40>>

\* Command lines with a missing token, a pattern that is no regex, a depth
\* that is no u8, or several of these.
BadArgSets ==
    {WithoutToken(WhoArgs(<<>>, <<>>, NoDepth, "tree")),
     WithoutToken(ExportArgs("-")),
     WhoArgs(<<PatOpen>>, <<>>, NoDepth, "tree"),
     WhoArgs(<<PatG>>, <<PatDotStar, PatOpen>>, 1, "json"),
     WhoArgs(<<>>, <<>>, 256, "csv"),
     WithoutToken(WhoArgs(<<PatOpen>>, <<>>, 256, "tree")),
     WithoutToken(WhoArgs(<<>>, <<PatOpen>>, 2, "json"))}

\* is_number: Ok when the argument parses as a u8
IsNumber(arg) == arg \in 0..255

\* The validator of --depth, run by get_matches when the flag is given
DepthAccepted(a) == a.cmd = "who" => (a.depth = NoDepth \/ IsNumber(a.depth))

\* Whether every ( of the pattern is closed and every ) has its (
RECURSIVE ParensClose(_, _)
ParensClose(pat, open) ==
    IF pat = <<>> THEN open = 0
    ELSE IF Head(pat) = 40 THEN ParensClose(Tail(pat), open + 1)
    ELSE IF Head(pat) = 41 THEN open > 0 /\ ParensClose(Tail(pat), open - 1)
    ELSE ParensClose(Tail(pat), open)

\* Regex::new(i) is Ok, for the patterns used here: literals, ".", "*" and
\* groups; an unbalanced group or a leading "*" is a syntax error.
RegexNewOk(pat) == ParensClose(pat, 0) /\ (pat = <<>> \/ Head(pat) # 42)

RegexesCompileDeferred(pats) == TRUE

\* .map(|i| Regex::new(i).unwrap_or_else(|_| panic!(..))).collect() returns
RegexesCompile(pats) == \A i \in DOMAIN pats : RegexNewOk(pats[i])

Init ==
    /\ pc = "main"
    /\ args \in ArgSets \cup BadArgSets
    /\ remote \in RemoteDbs
    /\ exit_code = NoExit
    /\ state = DefaultState
    /\ return_policies = <<>>
    /\ res = 0 /\ poll_queue = <<>> /\ offset = NoOffset /\ response_array = <<>>
    /\ requests = <<>> /\ failed = {}
    /\ IdleWho /\ IdleExport /\ IdleTree /\ IdleCmp

\* make_api_call, up to the loop: let mut poll_queue = vec![0]
BeginCall(r) ==
    /\ res' = r
    /\ poll_queue' = <<0>>
    /\ response_array' = <<>>
    /\ offset' = NoOffset
    /\ pc' = "loop"

\* After the fetch of resource res: the next fetch, or the aggregation.
NextFetch ==
    IF res < ResServices
    THEN BeginCall(res + 1)
    ELSE /\ pc' = "aggregate"
         /\ poll_queue' = <<>> /\ response_array' = <<>> /\ offset' = NoOffset
         /\ UNCHANGED res

\* who_is_oncall, up to the fetch: the patterns and the depth are read, then
\* get_escalation_policies starts with the policies
\* get_matches: clap reports the rejected --depth and exits with status 1
RejectDepth ==
    /\ pc = "main" /\ ~DepthAccepted(args)
    /\ exit_code' = 1
    /\ pc' = "aborted"
    /\ UNCHANGED <<args, remote, state, return_policies, fetch_vars, who_vars,
                   export_vars, tree_vars, cmp_vars>>

\* matches.value_of("API_TOKEN").unwrap() on None: main panics, status 101
PanicNoToken ==
    /\ pc = "main" /\ DepthAccepted(args) /\ ~args.token
    /\ exit_code' = 101
    /\ pc' = "aborted"
    /\ UNCHANGED <<args, remote, state, return_policies, fetch_vars, who_vars,
                   export_vars, tree_vars, cmp_vars>>

\* who_is_oncall: an include or exclude pattern that is no regex panics
PanicBadRegex ==
    /\ pc = "main" /\ args.cmd = "who"
    /\ DepthAccepted(args) /\ args.token
    /\ ~(RegexesCompile(args.include) /\ RegexesCompile(args.exclude))
    /\ exit_code' = 101
    /\ pc' = "aborted"
    /\ UNCHANGED <<args, remote, state, return_policies, fetch_vars, who_vars,
                   export_vars, tree_vars, cmp_vars>>

StartWho ==
    /\ pc = "main" /\ args.cmd = "who"
    /\ DepthAccepted(args) /\ args.token
    /\ RegexesCompile(args.include) /\ RegexesCompile(args.exclude)
    /\ who_cfg' = [include_vec |-> args.include,
                   exclude_vec |-> args.exclude,
                   max_depth |-> IF args.depth = NoDepth THEN 255 ELSE args.depth]
    /\ BeginCall(ResPolicies)
    /\ UNCHANGED <<args, remote, exit_code, state, return_policies, requests, failed,
                   policies, output, export_vars, tree_vars, cmp_vars>>

\* export_escilation_policies, up to the fetch
StartExport ==
    /\ pc = "main" /\ args.cmd = "export"
    /\ DepthAccepted(args) /\ args.token
    /\ BeginCall(ResPolicies)
    /\ UNCHANGED <<args, remote, exit_code, state, return_policies, requests, failed,
                   who_vars, export_vars, tree_vars, cmp_vars>>

\* One GET: poll_queue.pop(), then the request is sent
SendRequest ==
    /\ pc = "loop" /\ poll_queue # <<>>
    /\ offset' = poll_queue[Len(poll_queue)]
    /\ poll_queue' = SubSeq(poll_queue, 1, Len(poll_queue) - 1)
    /\ requests' = Append(requests,
           [res |-> res, offset |-> poll_queue[Len(poll_queue)], result |-> "pending"])
    /\ pc' = "await"
    /\ UNCHANGED <<args, remote, exit_code, state, return_policies, res, response_array, failed,
                   who_vars, export_vars, tree_vars, cmp_vars>>

\* The request fails, the body cannot be read or it does not decode (each of
\* the three returns None): the fetch of this resource is over
RecvFailure ==
    /\ pc = "await"
    /\ requests' = [requests EXCEPT ![Len(requests)].result = "error"]
    /\ state' = OnNone(state, res, response_array)
    /\ failed' = failed \cup {res}
    /\ NextFetch
    /\ UNCHANGED <<args, remote, exit_code, return_policies, who_vars, export_vars,
                   tree_vars, cmp_vars>>

\* A page is decoded: it is appended, and its `more` decides the next offset.
\* The remote serves at most MaxPages pages of a resource.
RecvPage ==
    /\ pc = "await"
    /\ \E more \in BOOLEAN :
          /\ more => PageIndex(offset) < MaxPages
          /\ requests' = [requests EXCEPT ![Len(requests)].result =
                              IF more THEN "more" ELSE "last"]
          /\ poll_queue' = PushMore(poll_queue, offset, more)
    /\ response_array' = Append(response_array, RemotePage(remote, res, PageIndex(offset)))
    /\ pc' = "loop"
    /\ UNCHANGED <<args, remote, exit_code, state, return_policies, res, offset, failed,
                   who_vars, export_vars, tree_vars, cmp_vars>>

\* The queue is empty: make_api_call returns Some(response_array) and the
\* fetch adds every record to the state
FinishFetch ==
    /\ pc = "loop" /\ poll_queue = <<>>
    /\ state' = AddAll(state, res, response_array)
    /\ NextFetch
    /\ UNCHANGED <<args, remote, exit_code, return_policies, requests, failed,
                   who_vars, export_vars, tree_vars, cmp_vars>>

----------------------------------------------------------------------------
(* The projections of who-is-oncall and the export command *)

\* The concatenation of a sequence of sequences
RECURSIVE Concat(_)
Concat(ss) == IF ss = <<>> THEN <<>> ELSE Head(ss) \o Concat(Tail(ss))

\* u8::to_string: the decimal digits
RECURSIVE DecStr(_)
DecStr(n) == IF n < 10 THEN <<48 + n>> ELSE Append(DecStr(n \div 10), 48 + (n % 10))

UsergroupFilterBelow(max_depth, usergroup) == ~(usergroup.depth >= max_depth)

\* usergroup_filter: false for a group deeper than max_depth
UsergroupFilter(max_depth, usergroup) == ~(usergroup.depth > max_depth)

GroupsKept(policy, max_depth) ==
    SelectSeq(policy.oncall_groups, LAMBDA g : UsergroupFilter(max_depth, g))

CsvRows(policy, group) ==
    [i \in DOMAIN group.users |->
        <<policy.id, policy.policy_name, DecStr(group.depth),
          group.users[i].name, group.users[i].email>>]

\* build_csv_output: the header, then a record per policy, group and user
BuildCsvOutput(ps, max_depth) ==
    <<<<"Escalation Policy ID", "Escalation Policy", "depth", "name", "email">>>>
    \o Concat([p \in DOMAIN ps |->
         LET groups == GroupsKept(ps[p], max_depth)
         IN Concat([g \in DOMAIN groups |-> CsvRows(ps[p], groups[g])])])

JsonRows(policy, group) ==
    [i \in DOMAIN group.users |->
        [id |-> policy.id, escalationPolicy |-> policy.policy_name,
         depth |-> group.depth, userName |-> group.users[i].name,
         userEmail |-> group.users[i].email]]

\* build_json_output: an object per policy, group and user
BuildJsonOutput(ps, max_depth) ==
    Concat([p \in DOMAIN ps |->
      LET groups == GroupsKept(ps[p], max_depth)
      IN Concat([g \in DOMAIN groups |-> JsonRows(ps[p], groups[g])])])

\* user.to_display(): the display name of the user
ToDisplay(user) == user.name

\* format!("Level {} - {}", group.depth, names.join(", "))
LevelLabel(group) ==
    <<"Level ", DecStr(group.depth), " - ",
      [i \in DOMAIN group.users |-> ToDisplay(group.users[i])]>>

RECURSIVE AddLevels(_, _, _)
AddLevels(t, oncalls, groups) ==
    IF groups = <<>> THEN t
    ELSE AddLevels(OutputLineAddLine(t, oncalls, LevelLabel(Head(groups))),
                   oncalls, Tail(groups))

\* build_tree_output, up to tree.to_string(): per policy a root, its
\* "Oncalls" child and a line per group that passes the filter
RECURSIVE BuildTree(_, _, _)
BuildTree(t, ps, max_depth) ==
    IF ps = <<>> THEN t
    ELSE LET root == TreeAddLine(t, <<"Escilation Policy - ", Head(ps).policy_name>>)
             oncalls == OutputLineAddLine(root, root.index_counter, "Oncalls")
         IN BuildTree(AddLevels(oncalls, oncalls.index_counter,
                                GroupsKept(Head(ps), max_depth)),
                      Tail(ps), max_depth)

\* tree.to_string(): the rendering of the tree
TreeToString(t) == Render(t)

\* The loop of who_is_oncall over the fetched policies, then policies.sort()
FilterAndSort(cfg, fetched) ==
    SortPolicies(SelectSeq(fetched, LAMBDA policy :
        PolicyShouldBeIncluded(cfg.include_vec, cfg.exclude_vec, policy)))

\* who_is_oncall after the fetch: filter, sort, project, print
WhoIsOncall ==
    /\ pc = "aggregated" /\ args.cmd = "who"
    /\ policies' = FilterAndSort(who_cfg, return_policies)
    /\ IF args.format = "tree"
       THEN /\ tree' = BuildTree(NoTree, policies', who_cfg.max_depth)
            /\ rendered' = TreeToString(tree')
            /\ output' = [format |-> "tree", given |-> policies', text |-> rendered']
       ELSE /\ output' = [format |-> args.format, given |-> policies',
                          text |-> IF args.format = "json"
                                   THEN BuildJsonOutput(policies', who_cfg.max_depth)
                                   ELSE BuildCsvOutput(policies', who_cfg.max_depth)]
            /\ UNCHANGED tree_vars
    /\ exit_code' = 0
    /\ pc' = "done"
    /\ UNCHANGED <<args, remote, state, return_policies, fetch_vars, who_cfg,
                   export_vars, cmp_vars>>

RECURSIVE AddEach(_, _)
AddEach(tf, ps) ==
    IF ps = <<>> THEN tf ELSE AddEach(AddEscalationPolicy(tf, Head(ps)), Tail(ps))

\* export_escilation_policies after the fetch: every policy is added, the
\* result is written to dest; write_file's result is dropped by .ok() and
\* main returns Ok(())
ExportAll ==
    /\ pc = "aggregated" /\ args.cmd = "export"
    /\ tf_state' = AddEach(DefaultTfState, return_policies)
    /\ added' = return_policies
    /\ \E written \in BOOLEAN :
          /\ args.dest = "-" => written
          /\ output' = [dest |-> args.dest, written |-> written,
                        text |-> IF written THEN tf_state' ELSE <<>>]
    /\ exit_code' = 0
    /\ pc' = "done"
    /\ UNCHANGED <<args, remote, state, return_policies, fetch_vars, who_cfg,
                   policies, tree_vars, cmp_vars>>

Next ==
    \/ RejectDepth \/ PanicNoToken \/ PanicBadRegex
    \/ StartWho \/ StartExport
    \/ SendRequest \/ RecvFailure \/ RecvPage \/ FinishFetch
    \/ Aggregate
    \/ WhoIsOncall \/ ExportAll

Spec == Init /\ [][Next]_vars

(* Claims about the command (Spec) *)

\* The requests sent for resource r, in the order sent.
RequestsOf(r) == SelectSeq(requests, LAMBDA q : q.res = r)

\* The records of the pages the remote served for the requests of resource r.
RECURSIVE ServedRecords(_, _)
ServedRecords(r, n) ==
    IF n = 0 THEN <<>>
    ELSE ServedRecords(r, n - 1) \o RemotePage(remote, r, n)

\* The ids of the records in `recs`, as a set.
IdsOf(recs) == {recs[i].id : i \in DOMAIN recs}

\* The collection of resource r in the state holds exactly the records `recs`
\* (for the keyed collections: the ids, each with its last record).
Holds(r, recs) ==
    LET last(id) == recs[MaxOf({i \in DOMAIN recs : recs[i].id = id})]
    IN CASE r = ResOncalls -> state.oncalls = recs
         [] r = ResPolicies ->
               /\ DOMAIN state.escalation_policies = IdsOf(recs)
               /\ \A id \in IdsOf(recs) : state.escalation_policies[id] = last(id)
         [] r = ResUsers ->
               /\ DOMAIN state.users = IdsOf(recs)
               /\ \A id \in IdsOf(recs) : state.users[id] = last(id)
         [] r = ResServices ->
               /\ DOMAIN state.services = IdsOf(recs)
               /\ \A id \in IdsOf(recs) : state.services[id] = last(id)

FetchesOver == pc \in {"aggregate", "aggregated", "done"}

\* C4: a fetch one of whose page requests failed was not retried and
\* contributes no record of its resource to the aggregation, whatever pages
\* it had decoded before; every other resource's collection holds all the
\* records served for it, and the command aggregates and prints with them.
C4_FailedFetchIsEmpty ==
    /\ \A r \in failed :
          /\ RequestsOf(r)[Len(RequestsOf(r))].result = "error"
          /\ \A i, j \in DOMAIN RequestsOf(r) :
                i # j => RequestsOf(r)[i].offset # RequestsOf(r)[j].offset
    /\ FetchesOver =>
          \A r \in Resources :
              IF r \in failed THEN Holds(r, <<>>)
              ELSE Holds(r, ServedRecords(r, Len(RequestsOf(r))))
    /\ pc = "done" =>
          /\ exit_code = 0
          /\ Len(return_policies) = Cardinality(DOMAIN state.escalation_policies)
          /\ args.cmd = "who" =>
                Len(output.given) =
                    Cardinality({i \in DOMAIN return_policies :
                        PolicyShouldBeIncluded(who_cfg.include_vec, who_cfg.exclude_vec,
                                               return_policies[i])})

\* The second page of on-calls failed after the first was decoded: no on-call
\* row at all, the policies, users and services of both pages are there, and
\* the tree was printed with both policies.
C4_Witness ==
    /\ pc = "done" /\ remote = 1 /\ args = WhoArgs(<<>>, <<>>, NoDepth, "tree")
    /\ failed = {ResOncalls}
    /\ Len(RequestsOf(ResOncalls)) = 2
    /\ state.oncalls = <<>>
    /\ DOMAIN state.escalation_policies = {P1, P2}
    /\ DOMAIN state.users = {U1, U2}
    /\ DOMAIN state.services = {S1, S2}
    /\ Len(output.given) = 2
    /\ Len(output.text) >= 4

\* C5: within one make_api_call the first request has offset 0, the request
\* for offset n+100 follows a page at offset n decoded with more = true, at
\* most one offset is pending in the queue, no offset is requested twice, no
\* request follows a page decoded with more = false, and the pages decoded
\* are kept in request order.
C5_PagesSequential ==
    /\ Len(poll_queue) <= 1
    /\ \A r \in Resources :
          LET rq == RequestsOf(r)
          IN /\ rq # <<>> => rq[1].offset = 0
             /\ \A i \in DOMAIN rq :
                   i > 1 => /\ rq[i].offset = rq[i - 1].offset + PAGE_SIZE
                            /\ rq[i - 1].result = "more"
             /\ \A i, j \in DOMAIN rq : i # j => rq[i].offset # rq[j].offset
             /\ \A i \in DOMAIN rq : rq[i].result \in {"last", "error", "pending"} => i = Len(rq)
    /\ pc \in {"loop", "await"} =>
          LET rq == RequestsOf(res)
              decoded == SelectSeq(rq, LAMBDA q : q.result \in {"more", "last"})
          IN /\ Len(response_array) = Len(decoded)
             /\ \A i \in DOMAIN response_array :
                   response_array[i] = RemotePage(remote, res, PageIndex(decoded[i].offset))
             /\ poll_queue # <<>> =>
                   /\ pc = "loop"
                   /\ poll_queue[1] = IF rq = <<>> THEN 0 ELSE rq[Len(rq)].offset + PAGE_SIZE
                   /\ rq # <<>> => rq[Len(rq)].result = "more"
             /\ (pc = "loop" /\ poll_queue = <<>>) => rq[Len(rq)].result = "last"

\* The policies were fetched in two requests, offsets 0 and 100, the first
\* page saying more and the second not, and the fetch went on to the on-calls.
C5_Witness ==
    /\ res = ResOncalls
    /\ RequestsOf(ResPolicies) =
          <<[res |-> ResPolicies, offset |-> 0, result |-> "more"],
            [res |-> ResPolicies, offset |-> PAGE_SIZE, result |-> "last"]>>
    /\ ResPolicies \notin failed
    /\ remote = 1
    /\ DOMAIN state.escalation_policies = {P1, P2}

----------------------------------------------------------------------------
(* The pure functions on their own: inputs are drawn, then applied; and    *)
(* who_is_oncall from any result of the fetch                              *)

NamedPolicies(m) == [id \in DOMAIN m |-> PolicyModel(id, m[id], NoneDesc)]

\* Results of get_escalation_policies: any names under the two ids.
WhoResults ==
    {MakeEscalationPolicies(
        [users |-> [k \in {U1} |-> UserRecord(k)],
         services |-> EmptyMap,
         escalation_policies |-> NamedPolicies(m),
         oncalls |-> <<OnCall(P1, U1, 1), OnCall(P1, U1, 2)>>]) :
     m \in UNION {[D -> PolicyNames] : D \in SUBSET PolicyIds}}

CfgOf(a) ==
    [include_vec |-> a.include,
     exclude_vec |-> a.exclude,
     max_depth |-> IF a.depth = NoDepth THEN 255 ELSE a.depth]

InitPure ==
    /\ state = DefaultState
    /\ remote = NoRemote /\ exit_code = NoExit
    /\ res = 0 /\ poll_queue = <<>> /\ offset = NoOffset /\ response_array = <<>>
    /\ requests = <<>> /\ failed = {}
    /\ policies = <<>> /\ output = <<>>
    /\ IdleExport /\ IdleTree
    /\ cmp_out = <<>>
    /\ \/ /\ pc = "pure"
          /\ cmp_in \in PureInputs
          /\ args = NoArgs /\ who_cfg = NoCfg /\ return_policies = <<>>
       \/ /\ pc = "aggregated"
          /\ cmp_in = <<>>
          /\ args \in {a \in ArgSets : a.cmd = "who"}
          /\ who_cfg = CfgOf(args)
          /\ return_policies \in WhoResults

PureFrame ==
    UNCHANGED <<args, remote, exit_code, state, return_policies, fetch_vars, who_vars,
                export_vars, tree_vars, cmp_in>>

\* a == b and a.cmp(&b)
Compare ==
    /\ pc = "pure" /\ cmp_in.kind = "pair"
    /\ cmp_out' = [eq |-> PolicyEq(cmp_in.a, cmp_in.b),
                   ord |-> PolicyCmp(cmp_in.a, cmp_in.b)]
    /\ pc' = "compared"
    /\ PureFrame

\* vec.sort()
SortList ==
    /\ pc = "pure" /\ cmp_in.kind = "list"
    /\ cmp_out' = SortPolicies(cmp_in.list)
    /\ pc' = "sorted"
    /\ PureFrame

\* policy_should_be_included(&include_vec, &exclude_vec, &policy)
ApplyFilter ==
    /\ pc = "pure" /\ cmp_in.kind = "filter"
    /\ cmp_out' = PolicyShouldBeIncluded(cmp_in.includes, cmp_in.excludes, cmp_in.policy)
    /\ pc' = "filtered"
    /\ PureFrame

NextPure == Compare \/ SortList \/ ApplyFilter \/ WhoIsOncall

SpecPure == InitPure /\ [][NextPure]_vars

\* C10: sorting orders a list of policies ascending by name whatever the input
\* order and the ids, and the list who-is-oncall hands to the tree, JSON or
\* CSV projection is the fetched policies that pass the filter, in that order.
C10_SortedByName ==
    /\ pc = "sorted" =>
          /\ SortedByName(cmp_out)
          /\ \A p \in SortPolicySet : Count(cmp_out, p) = Count(cmp_in.list, p)
    /\ pc = "done" /\ args.cmd = "who" =>
          /\ SortedByName(output.given)
          /\ output.given = policies
          /\ \A i \in DOMAIN return_policies :
                Count(output.given, return_policies[i]) =
                    IF PolicyShouldBeIncluded(who_cfg.include_vec, who_cfg.exclude_vec,
                                              return_policies[i])
                    THEN 1 ELSE 0
          /\ \A i \in DOMAIN output.given :
                \E j \in DOMAIN return_policies : return_policies[j] = output.given[i]

\* [Go (P1), Connect (P2)] was sorted to [Connect (P2), Go (P1)].
C10_WitnessList ==
    /\ pc = "sorted"
    /\ cmp_in.list = <<BarePolicy(P1, NameGo), BarePolicy(P2, NameConnect)>>
    /\ cmp_out = <<BarePolicy(P2, NameConnect), BarePolicy(P1, NameGo)>>

\* who-is-oncall fetched "go" (P1) before "Go" (P2) and handed "Go", "go" to
\* the projection.
C10_Witness ==
    /\ pc = "done" /\ args.cmd = "who"
    /\ Len(return_policies) = 2
    /\ return_policies[1].policy_name = NameLowerGo
    /\ return_policies[2].policy_name = NameGo
    /\ Len(output.given) = 2
    /\ output.given[1].policy_name = NameGo
    /\ output.given[1].id = P2

(* Claims about the depth cutoff of the projections (Spec) *)

\* Whether the command line keeps a level of this depth: every level when
\* --depth is absent, the levels not deeper than the cutoff otherwise.
C11_Kept(depth) == args.depth = NoDepth \/ depth <= args.depth

\* The number of users of the given policy in its level of this depth
C11_UsersAt(policy, depth) ==
    LET at == {g \in DOMAIN policy.oncall_groups :
                  policy.oncall_groups[g].depth = depth}
    IN IF at = {} THEN 0 ELSE Len(policy.oncall_groups[CHOOSE g \in at : TRUE].users)

\* The number of JSON objects, or CSV records, emitted for a policy and depth
C11_EntriesAt(id, depth) ==
    IF output.format = "json"
    THEN Cardinality({i \in DOMAIN output.text :
             output.text[i].id = id /\ output.text[i].depth = depth})
    ELSE Cardinality({i \in 2..Len(output.text) :
             output.text[i][1] = id /\ output.text[i][3] = <<48 + depth>>})

\* The depth strings of the "Level" lines under the "Oncalls" node `oncalls`
C11_LevelsUnder(oncalls) ==
    [i \in DOMAIN tree.edges[oncalls] |-> tree.nodes[tree.edges[oncalls][i]].content[2]]

\* The depth strings of the levels of a policy that the cutoff keeps
C11_LevelsKept(policy) ==
    LET kept == SelectSeq(policy.oncall_groups, LAMBDA g : C11_Kept(g.depth))
    IN [i \in DOMAIN kept |-> <<48 + kept[i].depth>>]

\* C11: when who-is-oncall has printed, the JSON and CSV projections hold,
\* for every policy and depth, one entry per user of that level when the
\* depth is at most the cutoff and none when it is deeper; the tree holds
\* one "Level" line per level at most as deep as the cutoff, in order, and
\* none for a deeper level; without --depth every level is emitted; and
\* every policy given to the tree keeps its root line and its single
\* "Oncalls" child whatever the cutoff is.
C11_DepthCutoff ==
    (pc = "done" /\ args.cmd = "who") =>
        IF output.format = "tree"
        THEN /\ Len(tree.roots) = Len(output.given)
             /\ \A p \in DOMAIN output.given :
                  LET root == tree.roots[p]
                  IN /\ tree.nodes[root].content =
                           <<"Escilation Policy - ", output.given[p].policy_name>>
                     /\ Len(tree.edges[root]) = 1
                     /\ tree.nodes[tree.edges[root][1]].content = "Oncalls"
                     /\ C11_LevelsUnder(tree.edges[root][1]) =
                           C11_LevelsKept(output.given[p])
             /\ Len(output.text) = tree.index_counter
        ELSE /\ \A p \in DOMAIN output.given : \A depth \in 0..(MaxLevel + 1) :
                  C11_EntriesAt(output.given[p].id, depth) =
                      IF C11_Kept(depth)
                      THEN C11_UsersAt(output.given[p], depth) ELSE 0
             /\ \A i \in DOMAIN output.text :
                  (output.format = "csv" => i > 1) =>
                      \E p \in DOMAIN output.given :
                          output.given[p].id =
                              IF output.format = "json" THEN output.text[i].id
                              ELSE output.text[i][1]

\* A policy with levels 1, 2 and 3 printed as a tree under --depth 1: only
\* its level 1 line is under its "Oncalls" node.
C11_Witness ==
    /\ pc = "done" /\ args.cmd = "who" /\ args.depth = 1 /\ output.format = "tree"
    /\ \E p \in DOMAIN output.given :
          /\ [g \in DOMAIN output.given[p].oncall_groups |->
                 output.given[p].oncall_groups[g].depth] = <<1, 2, 3>>
          /\ C11_LevelsUnder(tree.edges[tree.roots[p]][1]) = <<<<49>>>>

(* Claims about the order of the aggregated policies (Spec) *)

\* The policy records decoded by the policies fetch, in the order decoded:
\* page order, then position within the page.
C12_Decoded == ServedRecords(ResPolicies, Len(RequestsOf(ResPolicies)))

\* The ids of a sequence of records, in order.
C12_Ids(recs) == [i \in DOMAIN recs |-> recs[i].id]

\* The position at which the id was first decoded.
C12_FirstAt(id) ==
    CHOOSE i \in DOMAIN C12_Decoded :
        /\ C12_Decoded[i].id = id
        /\ \A j \in 1..(i - 1) : C12_Decoded[j].id # id

\* C12 as stated: the aggregator returns the policies in the order in which
\* they were decoded from the fetched pages, so of two returned policies the
\* one returned first was decoded first.
C12_DecodedOrder ==
    (pc \in {"aggregated", "done"} /\ ResPolicies \notin failed) =>
        \A i, j \in DOMAIN return_policies :
            i < j => C12_FirstAt(return_policies[i].id)
                        < C12_FirstAt(return_policies[j].id)

\* C12, amended: the aggregator returns one policy per decoded policy id, in
\* ascending byte order of the policy ids, whatever the order in which the
\* records were decoded.
C12_IdOrder ==
    (pc \in {"aggregated", "done"} /\ ResPolicies \notin failed) =>
        /\ {return_policies[i].id : i \in DOMAIN return_policies}
              = IdsOf(C12_Decoded)
        /\ \A i, j \in DOMAIN return_policies :
              i < j => StrCmp(return_policies[i].id, return_policies[j].id) < 0

\* The one page of policies was decoded as P2, P1 and the aggregator
\* returned P1, P2.
C12_Witness ==
    /\ pc = "aggregated" /\ ResPolicies \notin failed
    /\ C12_Ids(C12_Decoded) = <<P2, P1>>
    /\ C12_Ids(return_policies) = <<P1, P2>>

(* Claims about configuration errors (Spec) *)

\* The command line has no API token.
C13_MissingToken == ~args.token

\* An include or exclude pattern of the command line is the unclosed group.
C13_BadPattern ==
    /\ args.cmd = "who"
    /\ \/ \E i \in DOMAIN args.include : args.include[i] = PatOpen
       \/ \E i \in DOMAIN args.exclude : args.exclude[i] = PatOpen

\* The --depth of the command line is given and is outside 0-255.
C13_BadDepth ==
    args.cmd = "who" /\ args.depth # NoDepth /\ (args.depth < 0 \/ args.depth > 255)

C13_ConfigError == C13_MissingToken \/ C13_BadPattern \/ C13_BadDepth

\* C13: in every state of an execution whose command line has a missing
\* token, a pattern that is no regex or a --depth outside 0-255, no page
\* request of any resource has been sent and nothing was fetched; the
\* command aborts with a non-zero status straight from main, and it aborts
\* only for such a command line.
C13_NoRequestOnConfigError ==
    /\ C13_ConfigError =>
          /\ pc \in {"main", "aborted"}
          /\ requests = <<>> /\ poll_queue = <<>> /\ offset = NoOffset
          /\ state = DefaultState
    /\ pc = "aborted" =>
          /\ C13_ConfigError
          /\ exit_code # NoExit /\ exit_code # 0
          /\ requests = <<>>

\* The command was given a token and an exclude pattern that is no regex:
\* it has aborted with the panic status and sent no request.
C13_Witness ==
    /\ pc = "aborted" /\ exit_code = 101
    /\ args.token /\ C13_BadPattern /\ ~C13_BadDepth
    /\ requests = <<>>

(* Claims about the export's write (Spec) *)

\* C14: when the export command has ended and could not write its output
\* file, it has ended with a non-zero exit status, never with success.
C14_FailedWriteExitsNonZero ==
    (pc = "done" /\ args.cmd = "export" /\ ~output.written) => exit_code # 0

(* Claims about records that repeat an id (Spec) *)

\* The records of resource r that reached the aggregation, in decoded order.
C15_Decoded(r) ==
    IF r \in failed THEN <<>> ELSE ServedRecords(r, Len(RequestsOf(r)))

\* The last decoded record with this id.
C15_Last(recs, id) == recs[MaxOf({i \in DOMAIN recs : recs[i].id = id})]

\* The ids of the services whose last decoded record names this policy.
C15_ServicesOf(policy_id) ==
    {sid \in IdsOf(C15_Decoded(ResServices)) :
        C15_Last(C15_Decoded(ResServices), sid).escalation_policy = policy_id}

\* How many decoded on-call rows put this user in this level of this policy.
C15_RowsFor(policy_id, user_id, level) ==
    Cardinality({i \in DOMAIN C15_Decoded(ResOncalls) :
        C15_Decoded(ResOncalls)[i] = OnCall(policy_id, user_id, level)})

\* C15: after the fetches, the aggregated output holds exactly one policy
\* per decoded policy id, with the name and description of the last decoded
\* record of that id; its services are the names of the last decoded record
\* of each service id that names the policy, one per service id; every user
\* of a level carries the fields of the last decoded user record of its id;
\* and a user appears in a level once per decoded on-call row for that
\* policy, user and level, repeated rows included.
C15_LastWriteWins ==
    pc \in {"aggregated", "done"} =>
        /\ \A i, j \in DOMAIN return_policies :
              i # j => return_policies[i].id # return_policies[j].id
        /\ {return_policies[i].id : i \in DOMAIN return_policies}
              = IdsOf(C15_Decoded(ResPolicies))
        /\ \A i \in DOMAIN return_policies :
              LET p == return_policies[i]
                  rec == C15_Last(C15_Decoded(ResPolicies), p.id)
              IN /\ p.policy_name = rec.name
                 /\ p.description = rec.description
                 /\ Len(p.services) = Cardinality(C15_ServicesOf(p.id))
                 /\ \A sid \in C15_ServicesOf(p.id) :
                       \E k \in DOMAIN p.services :
                           p.services[k] = C15_Last(C15_Decoded(ResServices), sid).name
                 /\ \A g \in DOMAIN p.oncall_groups :
                       LET users == p.oncall_groups[g].users
                       IN /\ \A k \in DOMAIN users :
                                /\ users[k].id \in IdsOf(C15_Decoded(ResUsers))
                                /\ users[k].name =
                                      C15_Last(C15_Decoded(ResUsers), users[k].id).name
                          /\ \A uid \in IdsOf(C15_Decoded(ResUsers)) :
                                Cardinality({k \in DOMAIN users : users[k].id = uid})
                                    = C15_RowsFor(p.id, uid, p.oncall_groups[g].depth)

\* The third account, all pages decoded: the on-call row served twice put
\* U1 twice in level 1 of P1, with the name of the second user record, and
\* the service id served twice gave its second name to P2 and nothing to P1.
C15_Witness ==
    /\ pc = "aggregated" /\ remote = 3 /\ failed = {}
    /\ \E i, j \in DOMAIN return_policies :
          /\ return_policies[i].id = P1 /\ return_policies[j].id = P2
          /\ return_policies[i].services = <<>>
          /\ return_policies[j].services = <<<<100>>>>
          /\ return_policies[i].oncall_groups[1].users
                = <<[id |-> U1, name |-> UserRecord(U1).name, email |-> UserRecord(U1).email],
                    [id |-> U1, name |-> UserRecord(U1).name, email |-> UserRecord(U1).email]>>

====
